---- MODULE Spec2Model ----
(***************************************************************************)
(* Model of consumers/project_consumer_kabore.py: the streaming engine     *)
(* (bounded windows, rolling average, top-N category counts), the redraw   *)
(* rate limiter, the idle watchdog with its synthetic fallback, and the    *)
(* two ingestion loops (Kafka poll and file tail).                         *)
(*                                                                         *)
(* Time is the value time.perf_counter() returns, counted in ticks of      *)
(* TickMs milliseconds (the file loop's sleep).  Sentiment values are      *)
(* integers; an average is kept as the exact fraction <<sum, count>>.      *)
(***************************************************************************)
EXTENDS Integers, Sequences, FiniteSets, TLC

\* ------------------------------------------------------------ time scale
\* time.sleep(0.05) of file_loop: one tick of the model's clock, in ms.
TickMs == 50
\* consumer.poll(timeout_ms=500) of kafka_loop.
PollTimeoutMs == 500
\* time.sleep(1.0) of file_loop's synthetic-only loop, in ms.
SynthSleepMs == 1000

TicksPerSecond == 1000 \div TickMs
PollTicks == PollTimeoutMs \div TickMs
SleepTicks == TickMs \div TickMs
SynthSleepTicks == SynthSleepMs \div TickMs

\* ------------------------------------------------------------ bounds
\* Accepted samples per session in the window harness.
MaxSamples == 4
\* Largest clock value the window harness lets time reach.
WinMaxClock == 3
\* Accepted samples per session in the scheduler harness.
SchedMaxSamples == 1
\* Largest clock value the scheduler harness lets time reach.
SchedMaxClock == 5
\* Accepted samples per session in the ingestion loops.
LoopMaxSamples == 3
\* Largest clock value the ingestion loops let time reach.
MaxClock == 33
\* Smallest and largest perf_counter() reading at module load.  The counter
\* runs from system start: at module load it is past 1/FPS for the FPS of
\* the environments below.
InitClockMin == 2
InitClockMax == 3
\* Accepted samples per session in the record harness.
RecordMaxSamples == 2
\* Largest clock value the record harness lets time reach.
RecordMaxClock == 4
\* Samples a session of the edge harness takes; its last clock value.
EdgeMaxSamples == 2
EdgeMaxClock == 4
\* The clock value at which the busy-source model starts.
LiveClockStart == 13
\* Messages an author-count consumer obtains.
MaxMessages == 3
\* Records the source yields per session in the ingestion loops.
MaxRecords == 3
\* Most records one poll() returns.
MaxBatch == 2

\* ------------------------------------------------------------ helpers
Min(a, b) == IF a <= b THEN a ELSE b

RECURSIVE SumSeq(_)
SumSeq(s) == IF s = <<>> THEN 0 ELSE Head(s) + SumSeq(Tail(s))

\* The last n items of s (all of s when it has fewer).
LastN(s, n) == SubSeq(s, Len(s) - Min(n, Len(s)) + 1, Len(s))

\* Equality of two fractions <<num, den>> with positive denominators.
FracEq(a, b) == a[1] * b[2] = b[1] * a[2]

\* ------------------------------------------------------------ deque
\* An append that evicts the newest item instead of the oldest (faulty variant).
DequeAppendDropNewest(q, x, maxlen) ==
    IF maxlen = 0 THEN q
    ELSE IF Len(q) = maxlen THEN Append(SubSeq(q, 1, Len(q) - 1), x)
    ELSE Append(q, x)

\* collections.deque(maxlen=maxlen).append(x): the oldest item is discarded
\* when the deque is full; a deque of maxlen 0 stays empty.
DequeAppend(q, x, maxlen) ==
    IF maxlen = 0 THEN q
    ELSE IF Len(q) = maxlen THEN Append(Tail(q), x)
    ELSE Append(q, x)

\* ------------------------------------------------------------ rolling mean
\* The mean taken over the configured size, not the current length (faulty variant).
RollingMeanFixedDivisor(roll, n) == <<SumSeq(roll), n>>

\* sum(ROLL) / len(ROLL), as the fraction <<sum, len>>; n is ROLL's maxlen,
\* which the code does not use.
RollingMean(roll, n) == <<SumSeq(roll), Len(roll)>>

\* ------------------------------------------------------------ Counter
\* A count that is set to 1 and never incremented (faulty variant of CounterAdd).
CounterAddNoIncrement(cnt, x) ==
    IF \E i \in 1..Len(cnt) : cnt[i][1] = x THEN cnt ELSE Append(cnt, <<x, 1>>)

\* Counter.__init__ / update: one pass over the items; a dict keeps its keys
\* in first-insertion order.  The result is a sequence of <<key, count>>.
CounterAdd(cnt, x) ==
    IF \E i \in 1..Len(cnt) : cnt[i][1] = x
    THEN [i \in 1..Len(cnt) |->
            IF cnt[i][1] = x THEN <<x, cnt[i][2] + 1>> ELSE cnt[i]]
    ELSE Append(cnt, <<x, 1>>)

RECURSIVE CounterFrom(_, _)
CounterFrom(cnt, items) ==
    IF items = <<>> THEN cnt
    ELSE CounterFrom(CounterAdd(cnt, Head(items)), Tail(items))

Counter(items) == CounterFrom(<<>>, items)

\* Ties placed newest-first (faulty variant of InsertDesc).
InsertDescTiesLast(sorted, e) ==
    LET k == Cardinality({i \in 1..Len(sorted) : sorted[i][2] > e[2]})
    IN SubSeq(sorted, 1, k) \o <<e>> \o SubSeq(sorted, k + 1, Len(sorted))

\* Insert item e into a sequence sorted by descending count, after every
\* item whose count is >= e's (a stable descending sort keeps ties in their
\* original order).
InsertDesc(sorted, e) ==
    LET k == Cardinality({i \in 1..Len(sorted) : sorted[i][2] >= e[2]})
    IN SubSeq(sorted, 1, k) \o <<e>> \o SubSeq(sorted, k + 1, Len(sorted))

RECURSIVE SortedDescFrom(_, _)
SortedDescFrom(sorted, items) ==
    IF items = <<>> THEN sorted
    ELSE SortedDescFrom(InsertDesc(sorted, Head(items)), Tail(items))

\* Counter.most_common(n) = heapq.nlargest(n, items, key=count): the same
\* as sorted(items, key=count, reverse=True)[:n], and [] for n <= 0.
most_common(cnt, n) ==
    IF n <= 0 THEN <<>>
    ELSE LET s == SortedDescFrom(<<>>, cnt) IN SubSeq(s, 1, Min(n, Len(s)))

\* ------------------------------------------------------------ parsers
\* The forms of a "timestamp" field.  wall is the wall-clock reading written
\* in the text, off the zone offset written in it (0 when none is written).
\*   iso_z       "2025-01-11T18:15:00Z"
\*   iso_offset  "2025-01-11T18:15:00+01:00"
\*   iso_naive   "2025-01-11T18:15:00"
\*   space       "2025-01-11 18:15:00"
\*   iso_junk    19 characters of ISO text followed by text fromisoformat rejects
\*   epoch       a JSON number (seconds since the epoch)
\*   datetime    a datetime object (a record value that arrived as a dict)
\*   garbage     any other text
\*   none        the field is absent or null
TsForms == {"iso_z", "iso_offset", "iso_naive", "space", "iso_junk",
            "epoch", "datetime", "garbage", "none"}

\* A parser that reads an epoch number as a UTC time (faulty variant of
\* parse_ts).
parse_ts_epoch(ts) ==
    IF ts.form \in {"garbage", "none"}
    THEN [ok |-> FALSE, t |-> [wall |-> 0, utcoff |-> 0]]
    ELSE [ok |-> TRUE, t |-> [wall |-> ts.wall,
                              utcoff |-> IF ts.form \in {"iso_offset", "datetime"}
                                         THEN ts.off ELSE 0]]

\* parse_ts(ts): [ok, t] with t the timezone-aware datetime [wall, utcoff];
\* ok = FALSE when the ValueError of line 103 leaves the function.
parse_ts(ts) ==
    CASE ts.form = "datetime"   -> [ok |-> TRUE, t |-> [wall |-> ts.wall, utcoff |-> ts.off]]
      [] ts.form = "iso_z"      -> [ok |-> TRUE, t |-> [wall |-> ts.wall, utcoff |-> 0]]
      [] ts.form = "space"      -> [ok |-> TRUE, t |-> [wall |-> ts.wall, utcoff |-> 0]]
      [] ts.form = "iso_offset" -> [ok |-> TRUE, t |-> [wall |-> ts.wall, utcoff |-> ts.off]]
      [] ts.form = "iso_naive"  -> [ok |-> TRUE, t |-> [wall |-> ts.wall, utcoff |-> 0]]
      [] ts.form = "iso_junk"   -> [ok |-> TRUE, t |-> [wall |-> ts.wall, utcoff |-> 0]]
      [] OTHER                  -> [ok |-> FALSE, t |-> [wall |-> 0, utcoff |-> 0]]

\* float(s) for the "sentiment" field: a number or a numeric string converts,
\* any other string raises ValueError.
float_ok(s) == s.kind \in {"num", "numstr"}

\* The key of a record without a "category" field, and of one whose
\* category is JSON null.
MISSING == "<missing>"

NULL == "<null>"

\* c = obj.get("category", "other"); str(c)
category_label(c) ==
    IF c = MISSING THEN "other" ELSE IF c = NULL THEN "None" ELSE c

\* normalize_value(val): val is [type, decodes, parses, obj]; type is the
\* Python type of the Kafka record value, decodes whether bytes are valid
\* UTF-8, parses whether the text is valid JSON, obj the decoded JSON value.
normalize_value(val) ==
    IF val.type = "dict" THEN [ok |-> TRUE, obj |-> val.obj]
    ELSE IF val.type = "bytes" /\ ~val.decodes THEN [ok |-> FALSE, obj |-> val.obj]
    ELSE [ok |-> val.parses, obj |-> val.obj]

\* json.loads(line) of file_loop: line is [parses, obj].
json_loads(line) == [ok |-> line.parses, obj |-> line.obj]

\* ------------------------------------------------------------ inputs
Ts(form, wall, off) == [form |-> form, wall |-> wall, off |-> off]

Num(kind, val) == [kind |-> kind, val |-> val]

Obj(isdict, ts, s, c) == [isdict |-> isdict, ts |-> ts, s |-> s, c |-> c]

\* synth_message(): a "YYYY-MM-DD HH:MM:SS" timestamp of now, a random
\* sentiment and a random category of CATEGORIES; the model draws from two.
SynthMessages ==
    {Obj(TRUE, Ts("space", 9, 0), Num("num", 2), c) : c \in {"gaming", "other"}}

\* Decoded records the window harness feeds: three that process_one
\* accepts and two it drops.
WindowObjs ==
    {Obj(TRUE, Ts("iso_z", 1, 0), Num("num", 1), "humor"),
     Obj(TRUE, Ts("space", 2, 0), Num("num", 3), "tech"),
     Obj(TRUE, Ts("iso_offset", 3, 1), Num("numstr", 2), MISSING),
     Obj(TRUE, Ts("none", 0, 0), Num("num", 1), "humor"),
     Obj(TRUE, Ts("garbage", 0, 0), Num("num", 1), "tech")}

\* Decoded records the scheduler harness feeds: one accepted, one dropped.
SchedObjs ==
    {Obj(TRUE, Ts("iso_z", 1, 0), Num("num", 1), "humor"),
     Obj(TRUE, Ts("iso_z", 1, 0), Num("badstr", 0), "humor")}

Config(rw, hs, bs, tn, fps, idle) ==
    [ROLL_WIN |-> rw, HIST_SIZE |-> hs, BAR_SIZE |-> bs, TOPN |-> tn,
     FPS |-> fps, FAKE_IDLE |-> idle]

\* Environments of the window harness: sizes of 1 to 3, top 1 and top 2.
WindowConfigs ==
    {Config(2, 3, 2, 1, 10, 0),
     Config(1, 2, 3, 2, 10, 0),
     Config(3, 1, 2, 2, 10, 0)}

\* Environments of the scheduler harness: 10 and 20 redraws a second
\* (a redraw every 2 ticks, every tick).
SchedConfigs ==
    {Config(1, 1, 1, 1, 10, 0),
     Config(1, 1, 1, 1, 20, 0)}

\* ------------------------------------------------------------ state
VARIABLES
    ROLL_WIN, HIST_SIZE, BAR_SIZE, TOPN, FPS, FAKE_IDLE,  \* lines 134-139
    TS, SENT, ROLL, ROLL_AVG, CAT_WIN,                    \* lines 142-148
    last_draw,                 \* _last_draw
    last_real_msg_monotonic,   \* _last_real_msg_monotonic
    seen_real,                 \* _seen_real
    clock,                     \* what time.perf_counter() returns now
    pc,                        \* where the program is
    mode,                      \* get_ingest_mode()
    batch,                     \* records of the current poll() not yet handled
    got_any,                   \* kafka_loop's got_any
    handle,                    \* the consumer / the file: none, open, closed
    pushed,                    \* history: every item appended to each window
    sr,                        \* history: the latest _should_redraw() call
    redraws,                   \* history: times of the last two redraws
    ev,                        \* history: what the latest step did, and the
                               \*   record it was given if it was process_one
    synth_since,               \* history: real: a synthetic sample was accepted
                               \*   since the last accepted real one; at: when
                               \*   the latest synthetic sample was accepted
    silence,                   \* history: the times of the last two records the
                               \*   source yielded (the session start before
                               \*   them), and n, how many it yielded
    author_prog,               \* the author-count consumer that runs: "json"
                               \*   (json_consumer_case), "basic"
                               \*   (basic_json_consumer_case), "none"
    author_pc,                 \* its position: "run", "stopped", "off"
    author_counts,             \* its author_counts (0: no entry)
    author_log                 \* history: the messages it obtained and what
                               \*   became of each

cfgVars == <<ROLL_WIN, HIST_SIZE, BAR_SIZE, TOPN, FPS, FAKE_IDLE>>

winVars == <<TS, SENT, ROLL, ROLL_AVG, CAT_WIN>>

loopVars == <<pc, mode, batch, got_any, handle>>

engineVars == <<cfgVars, winVars, last_draw, last_real_msg_monotonic,
                seen_real, clock, loopVars, pushed, sr, redraws, ev,
                synth_since, silence>>

authorVars == <<author_prog, author_pc, author_counts, author_log>>

vars == <<engineVars, authorVars>>

\* The history of _should_redraw() calls since module load, before the
\* first: called: the latest step made a call; any: a call was made;
\* now, ret: the time and the result of the latest call; prev: the time of
\* the call before it (-1: none); burst (spaced): every call so far came
\* less than (at least) 1/FPS after the call before it; owed: a sample was
\* accepted since the latest call that returned true, so the chart on
\* screen does not show it yet.
NoCalls == [called |-> FALSE, any |-> FALSE, now |-> 0, ret |-> FALSE,
            prev |-> -1, burst |-> TRUE, spaced |-> TRUE, owed |-> FALSE]

NoSynth == [real |-> FALSE, at |-> -1]

NoPushes == [TS |-> <<>>, SENT |-> <<>>, ROLL |-> <<>>, ROLL_AVG |-> <<>>,
             CAT_WIN |-> <<>>]

\* The record of a step that is not a process_one call.
NoObj == [isdict |-> FALSE, ts |-> [form |-> "none", wall |-> 0, off |-> 0],
          s |-> [kind |-> "none", val |-> 0], c |-> "<missing>"]

Event(op, real, result) ==
    [op |-> op, is_real |-> real, result |-> result, obj |-> NoObj]

\* The latest step was process_one(obj, real).
Processed(obj, real, result) ==
    [op |-> "process_one", is_real |-> real, result |-> result, obj |-> obj]

\* Keys author_counts can hold in this model: three names and None (the
\* author of {"author": null}).
AuthorKeys == {"Eve", "Bob", "unknown", NULL}

\* No author-count consumer runs.
AuthorsOff ==
    /\ author_prog = "none" /\ author_pc = "off"
    /\ author_counts = [k \in AuthorKeys |-> 0]
    /\ author_log = <<>>

\* Module load (lines 134-152): the environment is read, the windows are
\* built empty, _last_draw is 0.0 and the idle clock is the current time.
EngineInit(configs, start, modes, clocks) ==
    /\ \E cfg \in configs :
         /\ ROLL_WIN = cfg.ROLL_WIN /\ HIST_SIZE = cfg.HIST_SIZE
         /\ BAR_SIZE = cfg.BAR_SIZE /\ TOPN = cfg.TOPN
         /\ FPS = cfg.FPS /\ FAKE_IDLE = cfg.FAKE_IDLE
    /\ TS = <<>> /\ SENT = <<>> /\ ROLL = <<>> /\ ROLL_AVG = <<>> /\ CAT_WIN = <<>>
    /\ last_draw = 0
    /\ clock \in clocks
    /\ last_real_msg_monotonic = clock
    /\ seen_real = FALSE
    /\ pc = start /\ mode \in modes /\ batch = <<>> /\ got_any = FALSE
    /\ handle = "none"
    /\ pushed = NoPushes
    /\ sr = NoCalls
    /\ redraws = <<>>
    /\ ev = Event("load", FALSE, "none")
    /\ synth_since = NoSynth
    /\ silence = [from |-> clock, to |-> clock, n |-> 0]

\* project_consumer_kabore alone.
InitWith(configs, start, modes, clocks) ==
    /\ EngineInit(configs, start, modes, clocks)
    /\ AuthorsOff

\* ------------------------------------------------------------ redraw
\* min_interval = 1.0 / max(FPS, 1e-6), in ticks.
min_interval ==
    IF FPS > 0 THEN TicksPerSecond \div FPS ELSE 1000000 * TicksPerSecond

\* A limiter that lets a redraw through only after more than the interval
\* (faulty variant of should_redraw).
should_redraw_strict(now) ==
    IF now - last_draw > min_interval
    THEN [ret |-> TRUE, last |-> now]
    ELSE [ret |-> FALSE, last |-> last_draw]

\* A limiter that forgets to record the redraw time (faulty variant).
should_redraw_no_update(now) ==
    [ret |-> now - last_draw >= min_interval, last |-> last_draw]

\* _should_redraw() called when perf_counter() reads now: what it returns
\* and the value it leaves in _last_draw.
should_redraw(now) ==
    IF now - last_draw >= min_interval
    THEN [ret |-> TRUE, last |-> now]
    ELSE [ret |-> FALSE, last |-> last_draw]

\* _top_n_counts() without the "or" defaults of lines 202-203 (faulty variant).
top_n_counts_no_sentinel ==
    LET most == most_common(Counter(CAT_WIN), TOPN)
    IN << [i \in 1..Len(most) |-> most[i][1]],
          [i \in 1..Len(most) |-> most[i][2]] >>

\* _top_n_counts(): <<labels, values>>
top_n_counts ==
    LET most == most_common(Counter(CAT_WIN), TOPN)
    IN IF most = <<>> THEN << <<"(none)">>, <<0>> >>
       ELSE << [i \in 1..Len(most) |-> most[i][1]],
               [i \in 1..Len(most) |-> most[i][2]] >>

\* The part of update_chart() that changes state: the _should_redraw() call
\* at the top.  The drawing itself (lines 210-228) reads the windows only.
\* sample: the call is the one process_one makes after it appended a sample.
\* The author-count consumers are other programs: no step of this one
\* touches their state.
RedrawCallAfter(sample) ==
    LET r == should_redraw(clock)
        near == (clock - sr.now) * FPS < TicksPerSecond
    IN /\ UNCHANGED authorVars
       /\ last_draw' = r.last
       /\ sr' = [called |-> TRUE, any |-> TRUE, now |-> clock, ret |-> r.ret,
                 prev |-> IF sr.any THEN sr.now ELSE -1,
                 burst |-> sr.burst /\ (sr.any => near),
                 spaced |-> sr.spaced /\ (sr.any => ~near),
                 owed |-> ~r.ret /\ (sample \/ sr.owed)]
       /\ redraws' = IF r.ret THEN LastN(Append(redraws, clock), 2) ELSE redraws

RedrawCall == RedrawCallAfter(FALSE)

NoRedrawCall ==
    /\ sr' = [sr EXCEPT !.called = FALSE]
    /\ UNCHANGED <<last_draw, redraws, authorVars>>

\* update_chart() called from a loop's idle branch.
update_chart ==
    /\ RedrawCall
    /\ ev' = Event("update_chart", FALSE, "none")
    /\ UNCHANGED <<winVars, last_real_msg_monotonic, seen_real, pushed,
                   synth_since>>

\* process_one without the float(s) of line 243 before the appends (faulty
\* variant of ProcessOutcome).
ProcessOutcomeNoFloat(obj) ==
    IF ~obj.isdict THEN "not_dict"
    ELSE IF obj.ts.form = "none" \/ obj.s.kind = "none" THEN "missing"
    ELSE IF ~parse_ts(obj.ts).ok THEN "bad_ts"
    ELSE IF ROLL_WIN = 0 THEN "zero_div"
    ELSE "ok"

\* ------------------------------------------------------------ process_one
\* How process_one(obj, ...) ends for obj: "not_dict" (obj.get raises),
\* "missing" (the early return of line 240), "bad_ts" (parse_ts raises),
\* "bad_value" (float raises), "zero_div" (len(ROLL) is 0 at line 248), "ok".
ProcessOutcome(obj) ==
    IF ~obj.isdict THEN "not_dict"
    ELSE IF obj.ts.form = "none" \/ obj.s.kind = "none" THEN "missing"
    ELSE IF ~parse_ts(obj.ts).ok THEN "bad_ts"
    ELSE IF ~float_ok(obj.s) THEN "bad_value"
    ELSE IF ROLL_WIN = 0 THEN "zero_div"
    ELSE "ok"

\* An idle clock that a synthetic sample resets too (faulty variant of
\* IdleClockAfter).
IdleClockAfterAny(is_real) == clock

\* The idle clock after process_one accepted a sample (lines 251-252): only
\* a real sample moves it.
IdleClockAfter(is_real) ==
    IF is_real THEN clock ELSE last_real_msg_monotonic

\* process_one(obj, is_real), lines 232-262.  A failure of the renderer
\* inside update_chart() is caught at line 261 and changes nothing more.
process_one(obj, is_real) ==
    LET out == ProcessOutcome(obj)
        t == parse_ts(obj.ts).t
        v == obj.s.val
        c == category_label(obj.c)
        roll1 == DequeAppend(ROLL, v, ROLL_WIN)
        avg == RollingMean(roll1, ROLL_WIN)
    IN
    CASE out = "ok" ->
           /\ TS' = DequeAppend(TS, t, HIST_SIZE)
           /\ SENT' = DequeAppend(SENT, v, HIST_SIZE)
           /\ ROLL' = roll1
           /\ ROLL_AVG' = DequeAppend(ROLL_AVG, avg, HIST_SIZE)
           /\ CAT_WIN' = DequeAppend(CAT_WIN, c, BAR_SIZE)
           /\ pushed' = [TS |-> Append(pushed.TS, t),
                         SENT |-> Append(pushed.SENT, v),
                         ROLL |-> Append(pushed.ROLL, v),
                         ROLL_AVG |-> Append(pushed.ROLL_AVG, avg),
                         CAT_WIN |-> Append(pushed.CAT_WIN, c)]
           /\ last_real_msg_monotonic' = IdleClockAfter(is_real)
           /\ seen_real' = (seen_real \/ is_real)
           /\ synth_since' = [real |-> ~is_real,
                              at |-> IF is_real THEN synth_since.at ELSE clock]
           /\ RedrawCallAfter(TRUE)
           /\ ev' = Processed(obj, is_real, "accepted")
      [] out = "zero_div" ->
           /\ TS' = DequeAppend(TS, t, HIST_SIZE)
           /\ SENT' = DequeAppend(SENT, v, HIST_SIZE)
           /\ ROLL' = roll1
           /\ pushed' = [pushed EXCEPT !.TS = Append(@, t),
                                       !.SENT = Append(@, v),
                                       !.ROLL = Append(@, v)]
           /\ NoRedrawCall
           /\ ev' = Processed(obj, is_real, "zero_div")
           /\ UNCHANGED <<ROLL_AVG, CAT_WIN, last_real_msg_monotonic, seen_real,
                          synth_since>>
      [] OTHER ->
           /\ NoRedrawCall
           /\ ev' = Processed(obj, is_real, "dropped")
           /\ UNCHANGED <<winVars, pushed, last_real_msg_monotonic, seen_real,
                          synth_since>>

\* ------------------------------------------------------------ main
\* What the get_* functions of lines 60-83 return: os.getenv reads the
\* environment of the process, which load_dotenv() filled at import, so
\* main() reads the values module load read.
Env == Config(ROLL_WIN, HIST_SIZE, BAR_SIZE, TOPN, FPS, FAKE_IDLE)

\* A faulty variant of main(): the windows are rebuilt but the idle clock of
\* the previous session is kept.
main_reset_keeps_idle_clock(cfg) ==
    /\ ROLL_WIN' = cfg.ROLL_WIN /\ HIST_SIZE' = cfg.HIST_SIZE
    /\ BAR_SIZE' = cfg.BAR_SIZE /\ TOPN' = cfg.TOPN
    /\ FPS' = cfg.FPS /\ FAKE_IDLE' = cfg.FAKE_IDLE
    /\ TS' = <<>> /\ SENT' = <<>> /\ ROLL' = <<>> /\ ROLL_AVG' = <<>>
    /\ CAT_WIN' = <<>>
    /\ last_real_msg_monotonic' = last_real_msg_monotonic
    /\ seen_real' = FALSE
    /\ pushed' = NoPushes
    /\ synth_since' = NoSynth
    /\ silence' = [from |-> clock, to |-> clock, n |-> 0]
    /\ NoRedrawCall
    /\ ev' = Event("main", FALSE,
                   IF TS # <<>> /\ CAT_WIN # <<>> /\ last_real_msg_monotonic < clock
                   THEN "restart" ELSE "fresh")

\* main(), lines 349-371: the environment is read again, the windows are
\* rebuilt empty and the idle clock restarts; _last_draw is not touched.
\* The history records whether the call found samples in the windows and an
\* idle clock in the past ("restart") or not ("fresh").
main_reset(cfg) ==
    /\ ROLL_WIN' = cfg.ROLL_WIN /\ HIST_SIZE' = cfg.HIST_SIZE
    /\ BAR_SIZE' = cfg.BAR_SIZE /\ TOPN' = cfg.TOPN
    /\ FPS' = cfg.FPS /\ FAKE_IDLE' = cfg.FAKE_IDLE
    /\ TS' = <<>> /\ SENT' = <<>> /\ ROLL' = <<>> /\ ROLL_AVG' = <<>>
    /\ CAT_WIN' = <<>>
    /\ last_real_msg_monotonic' = clock
    /\ seen_real' = FALSE
    /\ pushed' = NoPushes
    /\ synth_since' = NoSynth
    /\ silence' = [from |-> clock, to |-> clock, n |-> 0]
    /\ NoRedrawCall
    /\ ev' = Event("main", FALSE,
                   IF TS # <<>> /\ CAT_WIN # <<>> /\ last_real_msg_monotonic < clock
                   THEN "restart" ELSE "fresh")

\* ------------------------------------------------------------ harnesses
\* The engine driven by any caller: process_one with any record, real or
\* synthetic, update_chart, a restart by main, and the passing of time.
\* The harness bounds the samples of a session and the clock.
HarnessProcessOne(objs, maxSamples) ==
    \E obj \in objs, is_real \in BOOLEAN :
        /\ ProcessOutcome(obj) \in {"ok", "zero_div"} =>
               Len(pushed.TS) < maxSamples
        /\ process_one(obj, is_real)
        /\ UNCHANGED <<cfgVars, clock, loopVars, silence>>

HarnessUpdateChart ==
    /\ update_chart
    /\ UNCHANGED <<cfgVars, clock, loopVars, silence>>

HarnessMain ==
    /\ main_reset(Env)
    /\ UNCHANGED <<clock, loopVars>>

HarnessTick(maxClock) ==
    /\ clock < maxClock
    /\ clock' = clock + 1
    /\ NoRedrawCall
    /\ ev' = Event("tick", FALSE, "none")
    /\ UNCHANGED <<cfgVars, winVars, last_real_msg_monotonic, seen_real,
                   loopVars, pushed, synth_since, silence>>

\* The window harness: many records, little time.
WindowInit == InitWith(WindowConfigs, "engine", {"kafka"}, InitClockMin..InitClockMax)

WindowNext ==
    \/ HarnessProcessOne(WindowObjs, MaxSamples)
    \/ HarnessUpdateChart
    \/ HarnessMain
    \/ HarnessTick(WinMaxClock)

WindowSpec == WindowInit /\ [][WindowNext]_vars

\* The scheduler harness: few records, more time.
SchedInit == InitWith(SchedConfigs, "engine", {"kafka"}, InitClockMin..InitClockMax)

SchedNext ==
    \/ HarnessProcessOne(SchedObjs, SchedMaxSamples)
    \/ HarnessUpdateChart
    \/ HarnessMain
    \/ HarnessTick(SchedMaxClock)

SchedSpec == SchedInit /\ [][SchedNext]_vars

\* Decoded records the record harness feeds: one of every timestamp form
\* with a valid value, every kind of value with a valid timestamp, a record
\* without a category, one with a null category, and a payload that is not a
\* dict.
RecordObjs ==
    {Obj(TRUE, Ts(f, 1, IF f \in {"iso_offset", "datetime"} THEN 1 ELSE 0),
         Num("num", 1), "humor") : f \in TsForms}
    \cup {Obj(TRUE, Ts("iso_naive", 2, 0), Num(k, 2), "tech") :
             k \in {"numstr", "badstr", "none"}}
    \cup {Obj(TRUE, Ts("space", 3, 0), Num("num", 3), MISSING),
          Obj(TRUE, Ts("space", 3, 0), Num("num", 3), NULL),
          Obj(FALSE, Ts("iso_z", 1, 0), Num("num", 1), "humor")}

RecordConfigs == {Config(2, 2, 2, 2, 10, 1)}

\* The record harness: every kind of record, real or synthetic.
RecordInit == InitWith(RecordConfigs, "engine", {"kafka"}, {InitClockMin})

RecordNext ==
    \/ HarnessProcessOne(RecordObjs, RecordMaxSamples)
    \/ HarnessTick(RecordMaxClock)

RecordSpec == RecordInit /\ [][RecordNext]_vars

\* Environments of the edge harness: int(os.getenv(...)) (lines 60-74)
\* accepts any integer, so a size of 0 and a top-N of 0 or less can be
\* configured; deque(maxlen=0) is a valid deque.  One environment with every
\* size positive.
EdgeConfigs ==
    {Config(0, 2, 2, 1, 10, 0),
     Config(2, 0, 2, 0, 10, 0),
     Config(1, 2, 0, -1, 10, 0),
     Config(1, 1, 1, 2, 10, 0)}

\* The edge harness: the engine under these environments.
EdgeInit == InitWith(EdgeConfigs, "engine", {"kafka"}, {InitClockMin})

EdgeNext ==
    \/ HarnessProcessOne(WindowObjs, EdgeMaxSamples)
    \/ HarnessUpdateChart
    \/ HarnessTick(EdgeMaxClock)

EdgeSpec == EdgeInit /\ [][EdgeNext]_vars

\* ------------------------------------------------------------ loops
\* Kafka record values of the loop model: bytes of a record process_one
\* accepts, a ready dict without a timestamp (process_one drops it), and
\* bytes that are not UTF-8 (normalize_value raises).
KafkaValue(type, decodes, parses, obj) ==
    [type |-> type, decodes |-> decodes, parses |-> parses, obj |-> obj]

LoopGoodObj == Obj(TRUE, Ts("iso_z", 1, 0), Num("num", 1), "humor")

LoopSecondObj == Obj(TRUE, Ts("space", 2, 0), Num("num", 3), "tech")

LoopDroppedObj == Obj(TRUE, Ts("none", 0, 0), Num("num", 1), "tech")

KafkaValues ==
    {KafkaValue("bytes", TRUE, TRUE, LoopGoodObj),
     KafkaValue("str", TRUE, TRUE, LoopSecondObj),
     KafkaValue("dict", TRUE, TRUE, LoopDroppedObj),
     KafkaValue("bytes", FALSE, FALSE, LoopDroppedObj)}

\* Lines of the tailed file: a record process_one accepts, JSON that is not
\* a record (process_one drops it), and text that is not JSON.
FileLine(parses, obj) == [parses |-> parses, obj |-> obj]

FileLines ==
    {FileLine(TRUE, LoopGoodObj),
     FileLine(TRUE, Obj(FALSE, Ts("none", 0, 0), Num("none", 0), MISSING)),
     FileLine(FALSE, LoopDroppedObj)}

\* What poll() may return: up to MaxBatch records.
Batches ==
    UNION {[1..n -> KafkaValues] : n \in 0..MaxBatch}

\* How long after poll() starts its records arrive: at once, one tick later,
\* or as the timeout ends.
ArrivalDelays == {0, 1, PollTicks}

\* Environments of the loop model: fallback off, and after 1 second.
LoopConfigs ==
    {Config(2, 2, 2, 1, 10, 0),
     Config(2, 2, 2, 1, 10, 1)}

\* The fallback compared against the last redraw (faulty variant of fallback_due).
fallback_due_since_draw ==
    FAKE_IDLE > 0 /\ (clock - last_draw) >= FAKE_IDLE * TicksPerSecond

\* Lines 294 and 323: FAKE_IDLE > 0 and
\* (time.perf_counter() - _last_real_msg_monotonic) >= FAKE_IDLE
fallback_due ==
    FAKE_IDLE > 0 /\ (clock - last_real_msg_monotonic) >= FAKE_IDLE * TicksPerSecond

\* A step of a loop that calls neither process_one nor update_chart.
LoopStep(op) ==
    /\ NoRedrawCall
    /\ ev' = Event(op, FALSE, "none")
    /\ UNCHANGED <<winVars, last_real_msg_monotonic, seen_real, pushed,
                   synth_since>>

\* process_one for a record taken from the source.
ProcessReal(obj) ==
    /\ ProcessOutcome(obj) = "ok" => Len(pushed.TS) < LoopMaxSamples
    /\ process_one(obj, TRUE)

\* fake = synth_message(); process_one(fake, is_real=False)
ProcessSynth ==
    \E fake \in SynthMessages :
        /\ Len(pushed.TS) < LoopMaxSamples
        /\ process_one(fake, FALSE)

\* The source yields n records at time now: the silence they end.
RecordObtained(now, n) ==
    /\ silence.n + n <= MaxRecords
    /\ silence' = [from |-> silence.to, to |-> now, n |-> silence.n + n]

\* main(), lines 348-379.
Main ==
    /\ pc = "main"
    /\ main_reset(Env)
    /\ pc' = IF mode = "file" THEN "f_open" ELSE "k_connect"
    /\ UNCHANGED <<clock, mode, batch, got_any, handle>>

\* kafka_loop, lines 271-276: create_kafka_consumer succeeds or raises.
KafkaConnect ==
    /\ pc = "k_connect"
    /\ \E ok \in BOOLEAN :
         /\ handle' = IF ok THEN "open" ELSE handle
         /\ pc' = IF ok THEN "k_poll" ELSE "done"
    /\ LoopStep("connect")
    /\ UNCHANGED <<cfgVars, clock, mode, batch, got_any, silence>>

\* Line 281-282 with an empty batch: poll() waits out its timeout.
KafkaPollEmpty ==
    /\ pc = "k_poll"
    /\ clock + PollTicks <= MaxClock
    /\ clock' = clock + PollTicks
    /\ batch' = <<>> /\ got_any' = FALSE
    /\ pc' = "k_idle"
    /\ NoRedrawCall
    /\ ev' = Event("poll", FALSE, "none")
    /\ UNCHANGED <<cfgVars, winVars, last_real_msg_monotonic, seen_real, pushed,
                   synth_since, mode, handle, silence>>

\* Line 281-282 with records: poll() returns when they arrive, within its
\* timeout.
KafkaPollRecords ==
    /\ pc = "k_poll"
    /\ \E b \in Batches \ {<<>>}, d \in ArrivalDelays :
         /\ clock + d <= MaxClock
         /\ clock' = clock + d
         /\ batch' = b
         /\ RecordObtained(clock + d, Len(b))
    /\ got_any' = FALSE
    /\ pc' = "k_msg"
    /\ NoRedrawCall
    /\ ev' = Event("poll", FALSE, "none")
    /\ UNCHANGED <<cfgVars, winVars, last_real_msg_monotonic, seen_real, pushed,
                   synth_since, mode, handle>>

\* A loop that takes the newest record of the batch first (faulty variant
\* of next_record).
next_record_newest(b) == b[Len(b)]

\* `for m in msgs` (lines 283-284): the records of the batch in the order
\* poll() returned them.
next_record(b) == Head(b)

\* Lines 284-287 for the next record of the batch: normalize_value raises
\* (the loop's except at line 300 ends the loop) or process_one runs.
KafkaMsg ==
    /\ pc = "k_msg"
    /\ got_any' = TRUE
    /\ LET r == normalize_value(next_record(batch))
       IN IF r.ok
          THEN /\ ProcessReal(r.obj)
               /\ batch' = Tail(batch)
               /\ pc' = IF Tail(batch) = <<>> THEN "k_poll" ELSE "k_msg"
          ELSE /\ LoopStep("normalize_error")
               /\ batch' = <<>>
               /\ pc' = "k_finally"
    /\ UNCHANGED <<cfgVars, clock, mode, handle, silence>>

\* Line 291: update_chart() in an iteration without records; an error of
\* the renderer leaves the loop through the except at line 300.
KafkaIdle ==
    /\ pc = "k_idle"
    /\ update_chart
    /\ \E rok \in BOOLEAN :
         pc' = IF should_redraw(clock).ret /\ ~rok THEN "k_finally" ELSE "k_check"
    /\ UNCHANGED <<cfgVars, clock, mode, batch, got_any, handle, silence>>

\* Lines 294-297: the synthetic sample when idle for too long.
KafkaCheck ==
    /\ pc = "k_check"
    /\ IF fallback_due THEN ProcessSynth ELSE LoopStep("check")
    /\ pc' = "k_poll"
    /\ UNCHANGED <<cfgVars, clock, mode, batch, got_any, handle, silence>>

\* A close() that leaves the handle as it is (faulty variant of release).
release_leak(h) == h

\* consumer.close() in the finally of kafka_loop (lines 302-305); the exit
\* of `with path.open(...) as f` in file_loop (line 315).
release(h) == "closed"

\* Line 298: KeyboardInterrupt, taken where the loop waits, in poll().
KafkaInterrupt ==
    /\ pc = "k_poll"
    /\ pc' = "k_finally"
    /\ batch' = <<>>
    /\ LoopStep("interrupt")
    /\ UNCHANGED <<cfgVars, clock, mode, got_any, handle, silence>>

\* Lines 302-307: consumer.close()
KafkaFinally ==
    /\ pc = "k_finally"
    /\ handle' = release(handle)
    /\ pc' = "done"
    /\ LoopStep("close")
    /\ UNCHANGED <<cfgVars, clock, mode, batch, got_any, silence>>

\* file_loop, lines 314-316 and 333-334: the file opens, or does not exist.
FileOpen ==
    /\ pc = "f_open"
    /\ \E exists \in BOOLEAN :
         /\ handle' = IF exists THEN "open" ELSE handle
         /\ pc' = IF exists THEN "f_read" ELSE "f_synth"
    /\ LoopStep("open")
    /\ UNCHANGED <<cfgVars, clock, mode, batch, got_any, silence>>

\* Lines 318-320: readline() returns nothing; the loop sleeps 0.05 s.
FileReadNothing ==
    /\ pc = "f_read"
    /\ clock + SleepTicks <= MaxClock
    /\ clock' = clock + SleepTicks
    /\ pc' = "f_idle"
    /\ LoopStep("sleep")
    /\ UNCHANGED <<cfgVars, mode, batch, got_any, handle, silence>>

\* Lines 318 and 328-332: readline() returns a line; json.loads raises
\* ("Bad line skipped") or process_one runs.
FileReadLine ==
    /\ pc = "f_read"
    /\ \E line \in FileLines :
         LET r == json_loads(line)
         IN IF r.ok THEN ProcessReal(r.obj) ELSE LoopStep("bad_line")
    /\ RecordObtained(clock, 1)
    /\ pc' = "f_read"
    /\ UNCHANGED <<cfgVars, clock, mode, batch, got_any, handle>>

\* Line 321: update_chart() after the sleep; an error of the renderer is
\* caught by neither except of file_loop: the with statement closes the
\* file and the error leaves main().
FileIdle ==
    /\ pc = "f_idle"
    /\ update_chart
    /\ \E rok \in BOOLEAN :
         IF should_redraw(clock).ret /\ ~rok
         THEN pc' = "crashed" /\ handle' = release(handle)
         ELSE pc' = "f_check" /\ handle' = handle
    /\ UNCHANGED <<cfgVars, clock, mode, batch, got_any, silence>>

\* Lines 323-327: the synthetic sample when the file is idle for too long.
FileCheck ==
    /\ pc = "f_check"
    /\ IF fallback_due THEN ProcessSynth ELSE LoopStep("check")
    /\ pc' = "f_read"
    /\ UNCHANGED <<cfgVars, clock, mode, batch, got_any, handle, silence>>

\* Line 343: KeyboardInterrupt, taken where the loop waits; the with statement
\* closes the file.
FileInterrupt ==
    /\ pc = "f_read"
    /\ pc' = "done"
    /\ handle' = release(handle)
    /\ LoopStep("interrupt")
    /\ UNCHANGED <<cfgVars, clock, mode, batch, got_any, silence>>

\* Lines 336-340: without the file, a synthetic sample every second.
FileSynth ==
    /\ pc = "f_synth"
    /\ clock + SynthSleepTicks <= MaxClock
    /\ ProcessSynth
    /\ clock' = clock + SynthSleepTicks
    /\ pc' = "f_synth"
    /\ UNCHANGED <<cfgVars, mode, batch, got_any, handle, silence>>

\* Line 341: KeyboardInterrupt in the synthetic-only loop.
FileSynthInterrupt ==
    /\ pc = "f_synth"
    /\ pc' = "done"
    /\ LoopStep("interrupt")
    /\ UNCHANGED <<cfgVars, clock, mode, batch, got_any, handle, silence>>

Init == InitWith(LoopConfigs, "main", {"kafka", "file"}, {InitClockMin})

Next ==
    \/ Main
    \/ KafkaConnect
    \/ KafkaPollEmpty
    \/ KafkaPollRecords
    \/ KafkaMsg
    \/ KafkaIdle
    \/ KafkaCheck
    \/ KafkaInterrupt
    \/ KafkaFinally
    \/ FileOpen
    \/ FileReadNothing
    \/ FileReadLine
    \/ FileIdle
    \/ FileCheck
    \/ FileInterrupt
    \/ FileSynth
    \/ FileSynthInterrupt

Spec == Init /\ [][Next]_vars

\* ------------------------------------------------------------ busy source
\* A source that goes on yielding records after the MaxRecords the history
\* counts: poll() returns one more record (lines 281-285).  The history
\* keeps the times of the last two records and stops counting.
KafkaPollBeyond ==
    /\ pc = "k_poll"
    /\ silence.n = MaxRecords
    /\ \E v \in KafkaValues, d \in ArrivalDelays :
         /\ clock + d <= MaxClock
         /\ clock' = clock + d
         /\ batch' = <<v>>
         /\ silence' = [silence EXCEPT !.from = silence.to, !.to = clock + d]
    /\ got_any' = FALSE
    /\ pc' = "k_msg"
    /\ NoRedrawCall
    /\ ev' = Event("poll", FALSE, "none")
    /\ UNCHANGED <<cfgVars, winVars, last_real_msg_monotonic, seen_real, pushed,
                   synth_since, mode, handle>>

\* readline() returns one more line (lines 318 and 328-332).
FileReadBeyond ==
    /\ pc = "f_read"
    /\ silence.n = MaxRecords
    /\ \E line \in FileLines :
         LET r == json_loads(line)
         IN IF r.ok THEN ProcessReal(r.obj) ELSE LoopStep("bad_line")
    /\ silence' = [silence EXCEPT !.from = silence.to, !.to = clock]
    /\ pc' = "f_read"
    /\ UNCHANGED <<cfgVars, clock, mode, batch, got_any, handle>>

\* The loops with such a source, started late enough for the clock bound to
\* leave room for a few iterations only.  The program keeps taking steps:
\* a loop that can make a step makes one.
LiveConfigs == {Config(2, 2, 2, 1, 10, 0)}

LiveInit == InitWith(LiveConfigs, "main", {"kafka", "file"}, {LiveClockStart})

LiveNext ==
    \/ Next
    \/ KafkaPollBeyond
    \/ FileReadBeyond

LiveSpec == LiveInit /\ [][LiveNext]_vars /\ WF_vars(LiveNext)

\* ------------------------------------------------------------ author counts
\* json_consumer_case.py and basic_json_consumer_case.py.
\* An "author" value that cannot be a dict key (a JSON list or object).
UNHASHABLE == "<list>"

\* What the "author" field of a record can be: a name, the text "unknown",
\* absent, null, a list.
AuthorFields == {"Eve", "Bob", "unknown", MISSING, NULL, UNHASHABLE}

\* A message: decodes: its bytes are UTF-8; parses: its text is JSON;
\* isdict: the JSON value is an object; author: the object's "author".
AuthorMsg(decodes, parses, isdict, author) ==
    [decodes |-> decodes, parses |-> parses, isdict |-> isdict,
     author |-> author]

AuthorMessages ==
    {AuthorMsg(TRUE, TRUE, TRUE, a) : a \in AuthorFields}
    \cup {AuthorMsg(TRUE, TRUE, FALSE, MISSING),
          AuthorMsg(TRUE, FALSE, FALSE, MISSING),
          AuthorMsg(FALSE, FALSE, FALSE, MISSING)}

\* message_dict.get("author", "unknown")
dict_get_author(m) == IF m.author = MISSING THEN "unknown" ELSE m.author

\* How process_message(m) ends: message.decode raises (json_consumer_case
\* line 88), json.loads raises, the value is not a dict, author_counts[author]
\* raises TypeError for an unhashable author, or the author is counted.
MessageOutcome(m) ==
    IF ~m.decodes THEN "bad_bytes"
    ELSE IF ~m.parses THEN "bad_json"
    ELSE IF ~m.isdict THEN "not_dict"
    ELSE IF dict_get_author(m) = UNHASHABLE THEN "unhashable"
    ELSE "counted"

\* process_message(message): every exception is caught and logged; an error
\* of update_chart() comes after the increment and is caught too.
process_message(m) ==
    LET out == MessageOutcome(m)
    IN /\ author_counts' =
            IF out = "counted"
            THEN [author_counts EXCEPT ![dict_get_author(m)] = @ + 1]
            ELSE author_counts
       /\ \E rok \in BOOLEAN :
            author_log' = Append(author_log,
                [msg |-> m,
                 result |-> IF out = "counted" /\ ~rok THEN "counted_no_chart"
                            ELSE out])

\* json_consumer_case.main, lines 126-129: the next record of the consumer.
AuthorRecord ==
    /\ author_prog = "json" /\ author_pc = "run"
    /\ Len(author_log) < MaxMessages
    /\ \E m \in AuthorMessages : process_message(m)
    /\ UNCHANGED <<engineVars, author_prog, author_pc>>

\* basic_json_consumer_case.main, lines 150-154: the next line of the file,
\* opened as UTF-8 text: readline() raises UnicodeDecodeError for bytes that
\* are not UTF-8, which `except Exception` (line 162) catches outside the
\* loop.
AuthorLine ==
    /\ author_prog = "basic" /\ author_pc = "run"
    /\ Len(author_log) < MaxMessages
    /\ \E m \in AuthorMessages :
         IF m.decodes
         THEN /\ process_message(m)
              /\ author_pc' = author_pc
         ELSE /\ author_log' = Append(author_log,
                                      [msg |-> m, result |-> "read_error"])
              /\ author_pc' = "stopped"
              /\ author_counts' = author_counts
    /\ UNCHANGED <<engineVars, author_prog>>

\* KeyboardInterrupt (json_consumer_case line 130, basic line 160).
AuthorInterrupt ==
    /\ author_pc = "run"
    /\ author_pc' = "stopped"
    /\ UNCHANGED <<engineVars, author_prog, author_counts, author_log>>

AuthorInit ==
    /\ EngineInit(RecordConfigs, "engine", {"kafka"}, {InitClockMin})
    /\ author_prog \in {"json", "basic"} /\ author_pc = "run"
    /\ author_counts = [k \in AuthorKeys |-> 0]
    /\ author_log = <<>>

AuthorNext ==
    \/ AuthorRecord
    \/ AuthorLine
    \/ AuthorInterrupt

AuthorSpec == AuthorInit /\ [][AuthorNext]_vars

\* ------------------------------------------------------------ windows
\* The position of the first occurrence of x in s.
FirstIndex(s, x) == CHOOSE i \in 1..Len(s) : s[i] = x /\ \A j \in 1..(i - 1) : s[j] # x

Occurrences(s, x) == Cardinality({j \in 1..Len(s) : s[j] = x})

WindowIsLastOf(win, log, cap) == Len(win) <= cap /\ win = LastN(log, cap)

\* C1: every window (history timestamps, history values, rolling window,
\* rolling averages, categories) holds at most its capacity and is exactly
\* the last min(pushes, capacity) items pushed into it, in push order.
C1_WindowsAreBoundedFifo ==
    /\ WindowIsLastOf(TS, pushed.TS, HIST_SIZE)
    /\ WindowIsLastOf(SENT, pushed.SENT, HIST_SIZE)
    /\ WindowIsLastOf(ROLL, pushed.ROLL, ROLL_WIN)
    /\ WindowIsLastOf(ROLL_AVG, pushed.ROLL_AVG, HIST_SIZE)
    /\ WindowIsLastOf(CAT_WIN, pushed.CAT_WIN, BAR_SIZE)

\* C1's case: every window has evicted, and what the rolling and category
\* windows hold differs from the first items pushed.
C1_Witness_Evicted ==
    /\ Len(pushed.TS) > HIST_SIZE /\ Len(pushed.ROLL) > ROLL_WIN
    /\ Len(pushed.CAT_WIN) > BAR_SIZE
    /\ ROLL # SubSeq(pushed.ROLL, 1, ROLL_WIN)
    /\ CAT_WIN # SubSeq(pushed.CAT_WIN, 1, BAR_SIZE)
    /\ TS # SubSeq(pushed.TS, 1, HIST_SIZE)

\* The mean of the last min(k, ROLL_WIN) of the first k accepted values.
MeanOfLast(k) ==
    LET w == LastN(SubSeq(pushed.SENT, 1, k), ROLL_WIN)
    IN <<SumSeq(w), Len(w)>>

\* C2: the rolling average recorded after the k-th accepted sample is the
\* mean of v_1..v_k when k <= ROLL_WIN and of the last ROLL_WIN values
\* when k > ROLL_WIN; the newest entry of ROLL_AVG is that average.
C2_RollingAverageIsWindowMean ==
    /\ Len(pushed.ROLL_AVG) = Len(pushed.SENT)
    /\ \A k \in 1..Len(pushed.ROLL_AVG) :
         /\ pushed.ROLL_AVG[k][2] = Min(k, ROLL_WIN)
         /\ FracEq(pushed.ROLL_AVG[k], MeanOfLast(k))
    /\ (ROLL_AVG # <<>>) =>
         FracEq(ROLL_AVG[Len(ROLL_AVG)], MeanOfLast(Len(pushed.SENT)))

\* C2's case: more than ROLL_WIN samples were accepted and the recorded
\* average differs from the mean of all of them; an earlier one (k <=
\* ROLL_WIN, k > 1) was recorded too.
C2_Witness_PastWindow ==
    /\ ROLL_WIN >= 2
    /\ Len(pushed.SENT) > ROLL_WIN
    /\ ROLL_AVG # <<>>
    /\ ~FracEq(ROLL_AVG[Len(ROLL_AVG)],
               <<SumSeq(pushed.SENT), Len(pushed.SENT)>>)

SumCounts(cnt) == SumSeq([i \in 1..Len(cnt) |-> cnt[i][2]])

\* C3: the counts derived from the category window sum to the number of
\* labels in it; each counted label is counted as often as it occurs in the
\* window, and every label in the window is counted.
C3_CountsMatchWindow ==
    LET cnt == Counter(CAT_WIN)
    IN /\ SumCounts(cnt) = Len(CAT_WIN)
       /\ \A i \in 1..Len(cnt) : cnt[i][2] = Occurrences(CAT_WIN, cnt[i][1])
       /\ \A j \in 1..Len(CAT_WIN) : \E i \in 1..Len(cnt) : cnt[i][1] = CAT_WIN[j]

\* C3's case: a label was evicted from the window altogether while another
\* label occurs twice in it.
C3_Witness_EvictedLabel ==
    /\ \E k \in 1..Len(pushed.CAT_WIN) : Occurrences(CAT_WIN, pushed.CAT_WIN[k]) = 0
    /\ \E j \in 1..Len(CAT_WIN) : Occurrences(CAT_WIN, CAT_WIN[j]) = 2

\* Largest n of top_n the check covers.
MaxTopN == 3

TopN(n) == most_common(Counter(CAT_WIN), n)

\* C4: for a non-empty category window and every n >= 1, top_n returns at
\* most n (category, count) entries in descending count order, equal counts
\* in the order of first occurrence in the current window; _top_n_counts
\* returns the labels and values of top_n(TOPN); and top_n(2) over
\* a,b,a,c,b,a is (a,3), (b,2).
C4_TopNOrder ==
    /\ (CAT_WIN # <<>>) =>
         /\ \A n \in 1..MaxTopN :
              LET r == TopN(n)
              IN /\ Len(r) <= n /\ Len(r) >= 1
                 /\ \A i \in 1..Len(r) : r[i][2] = Occurrences(CAT_WIN, r[i][1])
                 /\ \A i, j \in 1..Len(r) :
                      i < j =>
                        /\ r[i][2] >= r[j][2]
                        /\ r[i][2] = r[j][2] =>
                             FirstIndex(CAT_WIN, r[i][1]) < FirstIndex(CAT_WIN, r[j][1])
         /\ TOPN >= 1 =>
              /\ top_n_counts[1] = [i \in 1..Len(TopN(TOPN)) |-> TopN(TOPN)[i][1]]
              /\ top_n_counts[2] = [i \in 1..Len(TopN(TOPN)) |-> TopN(TOPN)[i][2]]
    /\ most_common(Counter(<<"a", "b", "a", "c", "b", "a">>), 2)
         = << <<"a", 3>>, <<"b", 2>> >>

\* C4's case: two labels tie in the window, and the one first seen in the
\* window is not the one first seen in the session.
C4_Witness_TieInWindow ==
    /\ Len(CAT_WIN) = 2 /\ CAT_WIN[1] # CAT_WIN[2]
    /\ FirstIndex(pushed.CAT_WIN, CAT_WIN[2]) < FirstIndex(pushed.CAT_WIN, CAT_WIN[1])
    /\ TopN(2) = << <<CAT_WIN[1], 1>>, <<CAT_WIN[2], 1>> >>

\* C5: with an empty category window _top_n_counts returns exactly one
\* entry, the label "(none)" with the count 0.
C5_EmptyWindowSentinel ==
    (CAT_WIN = <<>>) => top_n_counts = << <<"(none)">>, <<0>> >>

\* C5's case: a redraw went through (and so called _top_n_counts) while the
\* category window was empty.
C5_Witness_EmptyRedraw ==
    CAT_WIN = <<>> /\ ev.op = "update_chart" /\ sr.called /\ sr.ret

\* ------------------------------------------------------------ scheduler
\* d ticks are at least 1/FPS seconds.
AtLeastInterval(d) == d * FPS >= TicksPerSecond

\* C6: a _should_redraw() call at time now returns true and sets _last_draw
\* to now if and only if now - _last_draw >= 1/FPS; otherwise it returns
\* false and leaves _last_draw unchanged.
C6_ShouldRedrawContract ==
    [][sr'.called =>
         /\ sr'.now = clock
         /\ sr'.ret <=> AtLeastInterval(sr'.now - last_draw)
         /\ sr'.ret => last_draw' = sr'.now
         /\ ~sr'.ret => last_draw' = last_draw]_vars

\* C6's case: a call was refused some time after an earlier redraw.
C6_Witness_Refused ==
    sr.called /\ ~sr.ret /\ redraws # <<>> /\ sr.now > last_draw /\ last_draw > 0

\* C7: whatever the calls (real samples, synthetic samples, idle
\* iterations), a redraw comes at least 1/FPS after the redraw before it.
C7_RedrawRateBound ==
    [][(sr'.called /\ sr'.ret /\ redraws # <<>>) =>
          AtLeastInterval(sr'.now - redraws[Len(redraws)])]_vars

\* C7's case: two redraws exactly 1/FPS apart, the second for a sample.
C7_Witness_TwoRedraws ==
    /\ Len(redraws) = 2 /\ (redraws[2] - redraws[1]) * FPS = TicksPerSecond
    /\ ev.op = "process_one" /\ sr.called /\ sr.ret

\* C8 as stated: from a fresh start, in a series of calls each less than
\* 1/FPS after the previous one only the first returns true, and in a
\* series of calls each at least 1/FPS after the previous one every call,
\* the first included, returns true.
C8_Original_SeriesFromFreshStart ==
    [][sr'.called =>
         /\ ~sr.any => sr'.ret
         /\ (sr.any /\ sr'.burst) => ~sr'.ret
         /\ sr'.spaced => sr'.ret]_vars

\* C8 amended: from a fresh start (_last_draw = 0.0, the clock past 1/FPS)
\* the first call returns true; a call less than 1/FPS after the latest
\* call that returned true returns false; a call at least 1/FPS after the
\* previous call returns true.
C8_SeriesOfCalls ==
    [][sr'.called =>
         /\ ~sr.any => sr'.ret
         /\ (redraws # <<>> /\ ~AtLeastInterval(sr'.now - redraws[Len(redraws)]))
               => ~sr'.ret
         /\ (sr.any /\ AtLeastInterval(sr'.now - sr.now)) => sr'.ret]_vars

\* C8's case: in a series of calls each less than 1/FPS after the previous
\* one, a call after the first returned true (the call before it was
\* refused).
C8_Witness_TrueAfterNearCall ==
    /\ sr.called /\ sr.ret /\ sr.prev >= 0
    /\ ~AtLeastInterval(sr.now - sr.prev)
    /\ sr.burst

\* The latest step was process_one accepting a sample of the given kind.
Accepted(e, real) ==
    e.op = "process_one" /\ e.is_real = real /\ e.result = "accepted"

\* C9: the idle clock (_last_real_msg_monotonic) is set to the current time
\* by every real sample process_one accepts, and by nothing else during a
\* session: a synthetic sample, an idle iteration, a dropped record and any
\* other step of the loops leave it unchanged (main() sets it when the
\* session starts).
C9_IdleClockSetByRealSamplesOnly ==
    [][/\ Accepted(ev', TRUE) => last_real_msg_monotonic' = clock'
       /\ (~Accepted(ev', TRUE) /\ ev'.op # "main")
            => last_real_msg_monotonic' = last_real_msg_monotonic]_vars

\* C9 witness: a synthetic sample was just accepted, after a real one and
\* later than it, and the idle clock still shows the real sample's time.
C9_Witness_SynthLeavesIdleClock ==
    /\ Accepted(ev, FALSE)
    /\ seen_real
    /\ silence.to > silence.from
    /\ last_real_msg_monotonic = silence.to
    /\ last_real_msg_monotonic < clock

\* The polling interval of the running loop: poll(timeout_ms=500) in Kafka
\* mode, sleep(0.05) in file mode.
PollInterval == IF mode = "file" THEN SleepTicks ELSE PollTicks

\* Longer than the idle threshold plus one polling interval.
PastWatchdog(d) == FAKE_IDLE > 0 /\ d > FAKE_IDLE * TicksPerSecond + PollInterval

\* C10 as stated: a real sample accepted more than the idle threshold plus one
\* polling interval after the previous real sample (the session start before
\* the first) has a synthetic sample accepted in between.
C10_Original_NoRealSample ==
    [][(Accepted(ev', TRUE) /\ PastWatchdog(clock' - last_real_msg_monotonic))
          => synth_since.real]_vars

\* C10: with the fallback enabled, when the source yields no record at all,
\* accepted or not, for longer than the idle threshold plus one polling
\* interval, a synthetic sample is accepted during that silence, before the
\* record that ends it is obtained.
C10_WatchdogAfterSilence ==
    PastWatchdog(silence.to - silence.from) => synth_since.at > silence.from

\* C10 witness: a real sample was just accepted after such a silence, with a
\* synthetic sample accepted during the silence.
C10_Witness_SynthDuringSilence ==
    /\ Accepted(ev, TRUE)
    /\ PastWatchdog(silence.to - silence.from)
    /\ synth_since.at > silence.from
    /\ synth_since.at <= silence.to

\* The latest step was process_one called with a synthetic sample.
SyntheticProcessed == ev.op = "process_one" /\ ~ev.is_real

\* C11: with the fallback disabled (FAKE_IDLE = 0) no synthetic sample is
\* ever processed, in Kafka mode or in file mode, however long the source is
\* idle or unavailable.
C11_NoSyntheticWhenDisabled ==
    FAKE_IDLE = 0 => ~SyntheticProcessed

\* The latest step took a record from the source that failed normalization:
\* normalize_value or json.loads raised, or process_one dropped it.
RecordFailed(e) ==
    \/ e.op \in {"normalize_error", "bad_line"}
    \/ e.op = "process_one" /\ e.is_real /\ e.result = "dropped"

\* C12: in Kafka mode and in file mode a record that fails normalization
\* never ends the ingestion loop: the loop goes on to its next read, and the
\* remaining records of the same poll batch are kept for processing.
C12_FailedRecordKeepsLoop ==
    [][RecordFailed(ev')
         => /\ pc' \in {"k_poll", "k_msg", "f_read"}
            /\ mode = "kafka" => batch' = Tail(batch)]_vars

\* The session is past its attempt to acquire the source and holds no
\* handle: the broker connection failed or the tailed file does not exist.
SourceUnavailable ==
    handle = "none" /\ pc \notin {"main", "k_connect", "f_open"}

\* C13: when the source is unavailable at session start the session
\* terminates: it is in its terminated state and no sample was processed.
C13_UnavailableSourceTerminates ==
    SourceUnavailable => (pc = "done" /\ pushed.TS = <<>>)

\* C14: an error raised by the renderer during a redraw, in process_one or
\* in an idle iteration, never ends the ingestion loop: after every step that
\* redraws the loop is still running.
C14_RendererFailureKeepsLoop ==
    [][(sr'.called /\ sr'.ret) => pc' \notin {"k_finally", "done", "crashed"}]_vars

\* C15: on every exit path of a loop that acquired its source (interrupt,
\* loop-level error, renderer error) the consumer or the file is released:
\* no terminated state has the handle still open.
C15_HandleReleasedOnExit ==
    pc \in {"done", "crashed"} => handle # "open"

\* C15 witness: a Kafka session that accepted a sample has terminated with
\* its consumer closed.
C15_Witness_ClosedAfterWork ==
    /\ pc = "done" /\ mode = "kafka"
    /\ handle = "closed"
    /\ seen_real

\* C16: samples are applied to the windows in the order their records were
\* obtained: the real sample a step accepts is the oldest record of the poll
\* batch not yet handled, and the rest of the batch stays queued behind it;
\* a synthetic sample is processed only in the branch of an iteration that
\* obtained no record, with no obtained record waiting.
C16_SamplesInObtainedOrder ==
    [][/\ (Accepted(ev', TRUE) /\ mode = "kafka")
            => /\ batch # <<>>
               /\ pushed'.SENT = Append(pushed.SENT, Head(batch).obj.s.val)
               /\ pushed'.CAT_WIN
                    = Append(pushed.CAT_WIN, category_label(Head(batch).obj.c))
               /\ batch' = Tail(batch)
       /\ (ev'.op = "process_one" /\ ~ev'.is_real)
            => /\ batch = <<>>
               /\ pc \in {"k_check", "f_check", "f_synth"}
               /\ mode = "kafka" => ~got_any]_vars

\* C16 witness: two different records were obtained and accepted, they are
\* in the windows in the order obtained, and a synthetic sample, processed
\* in a later idle iteration, follows them.
C16_Witness_BatchThenSynthetic ==
    /\ mode = "kafka"
    /\ Len(pushed.SENT) = 3
    /\ pushed.SENT[1] = 3 /\ pushed.SENT[2] = 1
    /\ silence.n = 2
    /\ ev.op = "process_one" /\ ~ev.is_real

\* A record whose fields other than the timestamp are in order.
ValidButTimestamp(o) == o.isdict /\ o.ts.form # "none" /\ o.s.kind \in {"num", "numstr"}

\* The timestamp forms C18 says are accepted, and those among them written
\* without a zone.
StatedForms == {"epoch", "iso_z", "iso_offset", "iso_naive", "space"}

ZonelessForms == {"iso_naive", "space", "iso_junk"}

\* The timestamp forms parse_ts accepts.
ParsedForms == {"datetime", "iso_z", "iso_offset", "iso_naive", "space", "iso_junk"}

\* process_one accepts a record whose other fields are in order exactly
\* when its timestamp has one of the given forms, and reads a zone-less
\* timestamp as UTC.
AcceptsExactly(forms) ==
    (ev.op = "process_one" /\ ValidButTimestamp(ev.obj))
      => /\ (ev.result = "accepted") = (ev.obj.ts.form \in forms)
         /\ (ev.result = "accepted" /\ ev.obj.ts.form \in ZonelessForms)
              => pushed.TS[Len(pushed.TS)] = [wall |-> ev.obj.ts.wall, utcoff |-> 0]

\* C18 as stated: an epoch number, an ISO-8601 string with or without a zone
\* marker and a "YYYY-MM-DD HH:MM:SS" string are accepted, every other
\* timestamp is dropped.
C18_Original_EpochAccepted == AcceptsExactly(StatedForms)

\* C18: process_one accepts a record exactly when its timestamp is a
\* datetime, an ISO-8601 string with or without a zone marker, a
\* "YYYY-MM-DD HH:MM:SS" string, or text whose first 19 characters are
\* "YYYY-MM-DDTHH:MM:SS"; zone-less forms are read as UTC; an epoch number
\* and any other text are dropped.
C18_TimestampForms == AcceptsExactly(ParsedForms)

\* C18 witness: a record with an epoch timestamp was just dropped, after a
\* record with a zone-less timestamp had been accepted.
C18_Witness_EpochDropped ==
    /\ ev.op = "process_one" /\ ev.result = "dropped"
    /\ ev.obj.ts.form = "epoch" /\ ValidButTimestamp(ev.obj)
    /\ Len(pushed.TS) = 1
    /\ pushed.TS[1] = [wall |-> 2, utcoff |-> 0]

\* C19: a synthetic sample is processed only when the fallback is enabled
\* and the time since the idle clock was last set is at least FAKE_IDLE
\* seconds, and at most one is processed in a loop iteration: after it the
\* loop is at the start of its next iteration.
C19_SyntheticOnlyWhenStale ==
    [][(ev'.op = "process_one" /\ ~ev'.is_real)
         => /\ FAKE_IDLE > 0
            /\ clock - last_real_msg_monotonic >= FAKE_IDLE * TicksPerSecond
            /\ pc' \in {"k_poll", "f_read", "f_synth"}]_vars

\* The reasons C20 gives for dropping a record: not a record, no timestamp
\* or no value, a timestamp parse_ts cannot read, a value that is not a
\* number.
DropReason(o) ==
    \/ ~o.isdict
    \/ o.ts.form = "none" \/ o.s.kind = "none"
    \/ o.ts.form \in {"garbage", "epoch"}
    \/ o.s.kind = "badstr"

\* C20: a process_one call with a record that has a reason to be dropped
\* leaves every window and the idle clock exactly as they were; a record
\* that lacks only its category is accepted and counted under "other".
C20_DroppedRecordChangesNothing ==
    [][ev'.op = "process_one"
         => /\ DropReason(ev'.obj)
                 => UNCHANGED <<TS, SENT, ROLL, ROLL_AVG, CAT_WIN, pushed,
                                last_real_msg_monotonic>>
            /\ (~DropReason(ev'.obj) /\ ev'.obj.c = MISSING)
                 => /\ ev'.result = "accepted"
                    /\ CAT_WIN'[Len(CAT_WIN')] = "other"
                    /\ Len(pushed'.CAT_WIN) = Len(pushed.CAT_WIN) + 1]_vars

\* C20 witness: a real record with a non-numeric value was just dropped
\* while the windows held a sample and the idle clock was in the past.
C20_Witness_BadValueDropped ==
    /\ ev.op = "process_one" /\ ev.is_real /\ ev.result = "dropped"
    /\ ev.obj.s.kind = "badstr"
    /\ Len(TS) = 1 /\ Len(CAT_WIN) = 1
    /\ last_real_msg_monotonic < clock

\* ------------------------------------------------------------ C21
\* C21: at the start of every session (each call of main), whatever the
\* previous session left behind, the history, rolling, rolling-average and
\* frequency windows are empty and the idle clock equals the start time.
C21_SessionStartsEmpty ==
    ev.op = "main" =>
        /\ TS = <<>> /\ SENT = <<>> /\ ROLL = <<>> /\ ROLL_AVG = <<>>
        /\ CAT_WIN = <<>>
        /\ last_real_msg_monotonic = clock

\* main was called over windows holding samples, the idle clock in the past.
C21_Witness_RestartOverSamples ==
    /\ ev.op = "main" /\ ev.result = "restart"
    /\ TS = <<>> /\ CAT_WIN = <<>> /\ last_real_msg_monotonic = clock

\* ------------------------------------------------------------ C22
\* C22: for every non-negative rolling, history and bar window size, after any
\* sequence of process_one calls the history timestamps, the history values
\* and the rolling averages have the same length: a sample is applied to all
\* windows or to none.
C22_SeriesEqualLength ==
    Len(TS) = Len(SENT) /\ Len(SENT) = Len(ROLL_AVG)

\* ------------------------------------------------------------ C23
\* C23: for every configured top-N value, _top_n_counts returns the sentinel
\* ("(none)", 0) if and only if the frequency window is empty.
C23_SentinelIffEmpty ==
    (top_n_counts = << <<"(none)">>, <<0>> >>) <=> (CAT_WIN = <<>>)

\* ------------------------------------------------------------ C24
\* The loop has ended (or is in its finally clause).
LoopEnded == pc \in {"k_finally", "done", "crashed"}

\* The run stops at a bound of the model, not at an exit of the program.
AtModelBound == ~ENABLED LiveNext

\* C24: in both loops, when the redraw for an accepted sample was suppressed
\* by the rate limiter (and 1/FPS has passed since the last redraw, so that a
\* call would redraw) and the loop keeps running without renderer errors, a
\* redraw that shows the sample eventually happens.
C24_OwedRedrawHappens ==
    (sr.owed /\ should_redraw(clock).ret)
        ~> (~sr.owed \/ LoopEnded \/ AtModelBound)

\* ------------------------------------------------------------ C25
\* Message m parsed to a record naming author k (a record without an author
\* names "unknown").
Naming(m, k) ==
    /\ m.decodes /\ m.parses /\ m.isdict
    /\ \/ m.author = k
       \/ k = "unknown" /\ m.author = MISSING

\* The processed messages that name k.
ProcessedNaming(k) ==
    Cardinality({i \in 1..Len(author_log) :
                    /\ author_log[i].result # "read_error"
                    /\ Naming(author_log[i].msg, k)})

CountsMatchMessages ==
    \A k \in AuthorKeys : author_counts[k] = ProcessedNaming(k)

InvalidMessage(m) == ~m.decodes \/ ~m.parses \/ ~m.isdict

InvalidMessageKeepsConsumer ==
    (/\ Len(author_log') = Len(author_log) + 1
     /\ InvalidMessage(author_log'[Len(author_log')].msg))
        => (author_counts' = author_counts /\ author_pc' = "run")

\* C25: in the author-count consumers the count held for each author equals
\* the number of processed messages that parsed to a record naming that
\* author (without an author: "unknown"), and a message that is invalid JSON
\* or not a record leaves every count unchanged and does not stop the
\* consumer.
C25_AuthorCountsAndInvalidMessages ==
    []CountsMatchMessages /\ [][InvalidMessageKeepsConsumer]_vars

====
